---- MODULE Spec2Model ----
(***************************************************************************)
(* The notebook dust_attenuated_seds.ipynb run top to bottom: one action   *)
(* per code cell, the notebook's names as variables.  The libraries the    *)
(* notebook calls (ezmist, ezdata, pystellibs, pyphot, pyextinction) are   *)
(* outside the repository; they are modelled at their call sites by small  *)
(* operators, and where their answer is not fixed by the notebook the      *)
(* model takes every answer.                                               *)
(*                                                                         *)
(* Numbers are fixed point: logT, logg in 0.1 dex, Z in 1e-4, magnitudes   *)
(* and zeropoints in 1e-4 mag, optical depths in 1e-3, attenuation factors *)
(* and attenuated fluxes in 1e-4, log10 in 1e-3 dex.                       *)
(* Strings the notebook takes apart or formats are sequences of one        *)
(* character strings.                                                      *)
(***************************************************************************)
EXTENDS Integers, Sequences, FiniteSets, TLC

VARIABLES pc, calls, iso, select, pars, wave, specs, names, flist, use_AB,
          zpts, table_rows, stdout, A0, R0, N, _specs, _unit, Dlambda, _s,
          dust_specs, dust_pars, ext_call, sed_call, fluxes, mags

vars == <<pc, calls, iso, select, pars, wave, specs, names, flist, use_AB,
          zpts, table_rows, stdout, A0, R0, N, _specs, _unit, Dlambda, _s,
          dust_specs, dust_pars, ext_call, sed_call, fluxes, mags>>

\* Largest number of rows of the downloaded isochrone table.
MaxStars == 2

(***************************************************************************)
(* Generic helpers                                                         *)
(***************************************************************************)
Range(s) == {s[i] : i \in 1..Len(s)}

RECURSIVE SumTo(_, _)
SumTo(f, n) == IF n = 0 THEN 0 ELSE f[n] + SumTo(f, n - 1)

\* numpy boolean-mask indexing: data[mask]
RECURSIVE BoolMask(_, _)
BoolMask(data, mask) ==
    IF data = <<>> THEN <<>>
    ELSE IF Head(mask) THEN <<Head(data)>> \o BoolMask(Tail(data), Tail(mask))
         ELSE BoolMask(Tail(data), Tail(mask))

(***************************************************************************)
(* ezdata.SimpleTable: rows, the column names, the aliases                 *)
(***************************************************************************)
NoTable == [data |-> <<>>, cols |-> {}, aliases |-> {}, bound |-> FALSE]

Table(data, cols, aliases) ==
    [data |-> data, cols |-> cols, aliases |-> aliases, bound |-> TRUE]

\* SimpleTable.resolve_alias
resolve_alias(t, name) ==
    IF \E a \in t.aliases : a[1] = name
    THEN (CHOOSE a \in t.aliases : a[1] = name)[2]
    ELSE name

\* t[name] succeeds: the resolved name is a column
Resolves(t, name) == resolve_alias(t, name) \in t.cols

\* t[name]: the column as a sequence
Column(t, name) == [i \in 1..Len(t.data) |-> t.data[i][resolve_alias(t, name)]]

\* SimpleTable.set_alias (the caller checks that colname is a column)
set_alias(t, alias, colname) ==
    [t EXCEPT !.aliases = {a \in @ : a[1] # alias} \cup {<<alias, colname>>}]

\* SimpleTable.add_column(name, values)
add_column(t, name, values) ==
    [t EXCEPT !.cols = @ \cup {name},
              !.data = [i \in 1..Len(t.data) |->
                          [c \in t.cols \cup {name} |->
                              IF c = name THEN values[i] ELSE t.data[i][c]]]]

\* t.data[name] = value, broadcast to every row
set_column(t, name, value) ==
    [t EXCEPT !.data = [i \in 1..Len(t.data) |-> [t.data[i] EXCEPT ![name] = value]]]

\* SimpleTable.selectWhere('*', cond): the rows where the condition, evaluated
\* row by row into cond, is true; every column
selectWhere(t, cond) == [t EXCEPT !.data = BoolMask(t.data, cond)]

(***************************************************************************)
(* Cell 3: the stellar parameter grid                                      *)
(***************************************************************************)
\* MIST phase codes: -1 PMS, 0 MS, 2 RGB, 3 CHeB, 4 EAGB, 5 TPAGB,
\* 6 postAGB (white dwarfs), 9 WR.  Rows are drawn with the codes below;
\* 3 and 4 lie between 2 and 5 and the selection treats them as it treats 2.
PhaseCodes == {-1, 0, 2, 5, 6, 9}

\* (log_Teff, log_g) of a star: a cool dwarf, a hot star, a star hotter and
\* more compact than any model atmosphere of the library
Points == {<<35, 45>>, <<40, 40>>, <<52, 60>>}

MistCols == {"log10_isochrone_age_yr", "initial_mass", "log_Teff", "log_g",
             "log_L", "phase"}

\* One row of the downloaded table; rows come in order of initial mass.
MistRow(i, phase, pt) ==
    [log10_isochrone_age_yr |-> 90, initial_mass |-> i, log_Teff |-> pt[1],
     log_g |-> pt[2], log_L |-> 0, phase |-> phase]

\* The tables ezmist.get_standard_isochrone can return.
MistTables ==
    UNION {{[i \in 1..n |-> MistRow(i, ph[i], pt[i])] :
              ph \in [1..n -> PhaseCodes], pt \in [1..n -> Points]} : n \in 0..MaxStars}

\* The aliases the downloaded table may already carry.
MistAliases == {{}, {<<"logg", "log_g">>}}

\* '(phase >= 0) & (phase < 6)'
PhaseCond(row) == (row["phase"] >= 0) /\ (row["phase"] < 6)

\* Z = np.array([0.0145] * len(iso))
ZArray(n) == [i \in 1..n |-> 145]

\* iso.data['Z'] = 0.0145
ZValue == 145

\* the table left without its Z column
WithoutMetallicity(t) == t

\* the Z column: add_column("Z", Z), then iso.data['Z'] = 0.0145
WithMetallicity(t) == set_column(add_column(t, "Z", ZArray(Len(t.data))), "Z", ZValue)

\* iso.selectWhere('*', '(phase >= 0) & (phase < 6)')
SelectPhases(t) == selectWhere(t, [i \in 1..Len(t.data) |-> PhaseCond(t.data[i])])

GetIsochrone ==
    /\ pc = "isochrone"
    /\ \E raw \in MistTables, al \in MistAliases :
         LET t0 == Table(raw, MistCols, al)
             t1 == SelectPhases(t0)
             t2 == WithMetallicity(t1)
             t3 == set_alias(t2, "logT", "log_Teff")
             t4 == set_alias(t3, "logL", "log_L")
         IN  iso' = t4
    /\ pc' = "spectra"
    /\ calls' = calls \o <<"get_standard_isochrone", "selectWhere">>
    /\ UNCHANGED <<select, pars, wave, specs, names, flist, use_AB, zpts,
                   table_rows, stdout, A0, R0, N, _specs, _unit, Dlambda, _s,
                   dust_specs, dust_pars, ext_call, sed_call, fluxes, mags>>

(***************************************************************************)
(* Cell 4: the interpolated spectral grid                                  *)
(***************************************************************************)
\* pystellibs.BaSeL.points_inside: the (logT, logg) coverage of the library
Inside(logT, logg) == (logT \in 33..47) /\ (logg \in -10..55)

points_inside(logT, logg) == [i \in 1..Len(logT) |-> Inside(logT[i], logg[i])]

\* The wavelengths (angstrom) the library's spectra are sampled on.
BaSeLWavelength == <<3500, 5500, 22000>>

\* A physical unit: the exponent of each base unit.
BaseUnits == <<"erg", "angstrom", "s">>
BaSeLFluxUnits == [u \in Range(BaseUnits) |-> IF u = "erg" THEN 1 ELSE -1]

\* The library's spectrum of a star: bluer for the hotter star, nothing where
\* the library holds no model atmosphere.
ModelSpectrum(logT, logg) ==
    IF ~Inside(logT, logg) THEN <<0, 0, 0>>
    ELSE IF logT < 38 THEN <<1, 4, 8>> ELSE <<8, 4, 2>>

\* pystellibs generate_individual_spectra(pars): (wave, specs)
generate_individual_spectra(t) ==
    [wave  |-> BaSeLWavelength,
     specs |-> [magnitude |-> [i \in 1..Len(t.data) |->
                                 ModelSpectrum(Column(t, "logT")[i], Column(t, "logg")[i])],
                units |-> BaSeLFluxUnits]]

\* pars = SimpleTable(iso): a table of its own with iso's rows and aliases
SimpleTable(t) == Table(t.data, t.cols, t.aliases)

\* the selection stored where the table does not keep its rows
FilterParsNowhere(t, mask) == t

\* pars.data = pars.data[select]
FilterPars(t, mask) == [t EXCEPT !.data = BoolMask(t.data, mask)]

\* the five pars.set_alias calls
AliasPars(t) ==
    LET t1 == set_alias(t, "logT", "log_Teff")
        t2 == set_alias(t1, "logL", "log_L")
        t3 == set_alias(t2, "logg", "log_g")
        t4 == set_alias(t3, "mass", "initial_mass")
    IN  set_alias(t4, "logA", "log10_isochrone_age_yr")

LaterUnchanged ==
    UNCHANGED <<names, flist, use_AB, zpts, table_rows, stdout, A0, R0, N,
                _specs, _unit, Dlambda, _s, dust_specs, dust_pars, ext_call,
                sed_call, fluxes, mags>>

\* The cell as dust_attenuated_seds.ipynb has it.
GenerateSpectra ==
    /\ pc = "spectra"
    /\ Resolves(iso, "logT") /\ Resolves(iso, "logg")
    /\ LET sel == points_inside(Column(iso, "logT"), Column(iso, "logg"))
           p   == AliasPars(FilterPars(SimpleTable(iso), sel))
           out == generate_individual_spectra(p)
       IN  /\ select' = sel
           /\ pars' = p
           /\ wave' = out.wave
           /\ specs' = out.specs
    /\ pc' = "filters"
    /\ calls' = calls \o <<"points_inside", "generate_individual_spectra">>
    /\ UNCHANGED iso
    /\ LaterUnchanged

\* iso['logg'] names no column and no alias: the cell stops at its first line.
GenerateSpectraKeyError ==
    /\ pc = "spectra"
    /\ ~(Resolves(iso, "logT") /\ Resolves(iso, "logg"))
    /\ pc' = "error"
    /\ UNCHANGED <<calls, iso, select, pars, wave, specs>>
    /\ LaterUnchanged

\* The cell as the second copy of the notebook has it: pars.pars is no
\* attribute of a SimpleTable, the cell stops there and no spectrum is made.
GenerateSpectraParsPars ==
    /\ pc = "spectra"
    /\ Resolves(iso, "logT") /\ Resolves(iso, "logg")
    /\ select' = points_inside(Column(iso, "logT"), Column(iso, "logg"))
    /\ pars' = SimpleTable(iso)
    /\ pc' = "error"
    /\ calls' = calls \o <<"points_inside">>
    /\ UNCHANGED <<iso, wave, specs>>
    /\ LaterUnchanged

(***************************************************************************)
(* Strings                                                                 *)
(***************************************************************************)
HasChar(s, c) == \E i \in 1..Len(s) : s[i] = c

FirstIndex(s, c) == CHOOSE i \in 1..Len(s) : s[i] = c /\ \A j \in 1..(i - 1) : s[j] # c

\* str.split(sep) for a one character separator
RECURSIVE split(_, _)
split(s, sep) ==
    IF ~HasChar(s, sep) THEN <<s>>
    ELSE LET i == FirstIndex(s, sep)
         IN  <<SubSeq(s, 1, i - 1)>> \o split(SubSeq(s, i + 1, Len(s)), sep)

NonEmpty(s) == s # <<>>

\* str.split(): the words between runs of blanks
split_blank(s) == SelectSeq(split(s, " "), NonEmpty)

(***************************************************************************)
(* Cell 5: the passbands and their zeropoints                              *)
(***************************************************************************)
galex_names == split_blank(
    <<"G", "A", "L", "E", "X", "_", "F", "U", "V", " ", "G", "A", "L", "E",
      "X", "_", "N", "U", "V">>)

gaia_names ==
    <<<<"G", "a", "i", "a", "D", "R", "2", "_", "B", "P">>,
      <<"G", "a", "i", "a", "D", "R", "2", "_", "G">>,
      <<"G", "a", "i", "a", "D", "R", "2", "_", "R", "P">>>>

johnson_names ==
    split_blank(
        <<"G", "R", "O", "U", "N", "D", "_", "J", "O", "H", "N", "S", "O",
          "N", "_", "U", " ", "G", "R", "O", "U", "N", "D", "_", "J", "O",
          "H", "N", "S", "O", "N", "_", "B", " ", "G", "R", "O", "U", "N",
          "D", "_", "J", "O", "H", "N", "S", "O", "N", "_", "V">>)
    \o split_blank(
        <<"G", "R", "O", "U", "N", "D", "_", "C", "O", "U", "S", "I", "N",
          "S", "_", "R", " ", "G", "R", "O", "U", "N", "D", "_", "C", "O",
          "U", "S", "I", "N", "S", "_", "I">>)

sdss_names == split_blank(
    <<"S", "D", "S", "S", "_", "u", " ", "S", "D", "S", "S", "_", "g", " ",
      "S", "D", "S", "S", "_", "r", " ", "S", "D", "S", "S", "_", "i", " ",
      "S", "D", "S", "S", "_", "z">>)

twomass_names == split_blank(
    <<"2", "M", "A", "S", "S", "_", "J", " ", "2", "M", "A", "S", "S", "_",
      "H", " ", "2", "M", "A", "S", "S", "_", "K", "s">>)

wise_names == split_blank(
    <<"W", "I", "S", "E", "_", "R", "S", "R", "_", "W", "1", " ", "W", "I",
      "S", "E", "_", "R", "S", "R", "_", "W", "2">>)

\* tuple(itertools.chain(...))
RequestedNames ==
    galex_names \o gaia_names \o johnson_names \o sdss_names \o twomass_names
    \o wise_names

\* use_AB = 'GALEX', 'SDSS'
UseABTuple == <<<<"G", "A", "L", "E", "X">>, <<"S", "D", "S", "S">>>>

Photon == <<"p", "h", "o", "t", "o", "n">>
Energy == <<"e", "n", "e", "r", "g", "y">>

\* One passband of the pyphot library: its name, the zeropoint and system the
\* notebook's recorded run shows for it, its detector type, its central
\* wavelength (angstrom).
Passband(nm, zero, sys, dtype, cl) ==
    [name |-> nm, zero |-> zero, sys |-> sys, dtype |-> dtype, cl |-> cl]

PyphotLibrary ==
    <<
      Passband(<<"G", "A", "L", "E", "X", "_", "F", "U", "V">>,
               183409, "AB", Photon, 1535),
      Passband(<<"G", "A", "L", "E", "X", "_", "N", "U", "V">>,
               192156, "AB", Photon, 2301),
      Passband(<<"G", "a", "i", "a", "D", "R", "2", "_", "B", "P">>,
               209817, "Vega", Photon, 5050),
      Passband(<<"G", "a", "i", "a", "D", "R", "2", "_", "G">>,
               215101, "Vega", Photon, 6230),
      Passband(<<"G", "a", "i", "a", "D", "R", "2", "_", "R", "P">>,
               222198, "Vega", Photon, 7730),
      Passband(<<"G", "R", "O", "U", "N", "D", "_", "J", "O", "H", "N", "S", "O", "N",
  "_", "U">>,
               209460, "Vega", Energy, 3600),
      Passband(<<"G", "R", "O", "U", "N", "D", "_", "J", "O", "H", "N", "S", "O", "N",
  "_", "B">>,
               205122, "Vega", Energy, 4400),
      Passband(<<"G", "R", "O", "U", "N", "D", "_", "J", "O", "H", "N", "S", "O", "N",
  "_", "V">>,
               210991, "Vega", Energy, 5500),
      Passband(<<"G", "R", "O", "U", "N", "D", "_", "C", "O", "U", "S", "I", "N", "S",
  "_", "R">>,
               216464, "Vega", Energy, 6500),
      Passband(<<"G", "R", "O", "U", "N", "D", "_", "C", "O", "U", "S", "I", "N", "S",
  "_", "I">>,
               223067, "Vega", Energy, 8000),
      Passband(<<"S", "D", "S", "S", "_", "u">>,
               201631, "AB", Photon, 3560),
      Passband(<<"S", "D", "S", "S", "_", "g">>,
               207696, "AB", Photon, 4700),
      Passband(<<"S", "D", "S", "S", "_", "r">>,
               213613, "AB", Photon, 6180),
      Passband(<<"S", "D", "S", "S", "_", "i">>,
               217803, "AB", Photon, 7500),
      Passband(<<"S", "D", "S", "S", "_", "z">>,
               221663, "AB", Photon, 8960),
      Passband(<<"2", "M", "A", "S", "S", "_", "J">>,
               237661, "Vega", Photon, 12350),
      Passband(<<"2", "M", "A", "S", "S", "_", "H">>,
               248611, "Vega", Photon, 16620),
      Passband(<<"2", "M", "A", "S", "S", "_", "K", "s">>,
               259214, "Vega", Photon, 21590),
      Passband(<<"W", "I", "S", "E", "_", "R", "S", "R", "_", "W", "1">>,
               277104, "Vega", Photon, 33680),
      Passband(<<"W", "I", "S", "E", "_", "R", "S", "R", "_", "W", "2">>,
               290353, "Vega", Photon, 46180)
    >>

Abs(x) == IF x < 0 THEN -x ELSE x

\* The index of the point of grid nearest to cl.
Nearest(grid, cl) ==
    CHOOSE k \in 1..Len(grid) :
        /\ \A m \in 1..Len(grid) : Abs(grid[k] - cl) <= Abs(grid[m] - cl)
        /\ \A m \in 1..(k - 1) : Abs(grid[m] - cl) > Abs(grid[k] - cl)

\* The library's difference between a passband's AB and Vega zeropoints, in
\* 0.1 mag: the notebook shows one zeropoint of each passband only.
ZeroPointShifts == {1, 2}

\* A loaded filter: the passband resampled on lamb.  shift is the library's
\* difference between AB and Vega zeropoints, in 0.1 mag.
LoadFilter(nm, lamb, shift) ==
    LET pb == CHOOSE e \in Range(PyphotLibrary) : e.name = nm
    IN  [name          |-> pb.name,
         dtype         |-> pb.dtype,
         AB_zero_mag   |-> IF pb.sys = "AB" THEN pb.zero ELSE pb.zero + 1000 * shift,
         Vega_zero_mag |-> IF pb.sys = "Vega" THEN pb.zero ELSE pb.zero - 1000 * shift,
         wavelength    |-> lamb,
         transmit      |-> [k \in 1..Len(lamb) |->
                              IF k = Nearest(lamb, pb.cl) THEN 1 ELSE 0]]

\* lib.load_filters(names, lamb=wave)
load_filters(nms, lamb, shift) == [j \in 1..Len(nms) |-> LoadFilter(nms[j], lamb, shift)]

\* load_filters without lamb: the filters stay on a sampling of their own
FilterGridNative == <<1000, 10000>>

\* the wavelength grid handed to load_filters
FilterGrid == wave

\* the whole name looked up in use_AB, the split forgotten
UsesABWholeName(fk, useAB) == fk.name \in Range(useAB)

\* fk.name.split('_')[0] in use_AB
UsesAB(fk, useAB) == split(fk.name, "_")[1] \in Range(useAB)

\* the body of the zeropoint loop
ZeroPoint(fk, useAB) == IF UsesAB(fk, useAB) THEN fk.AB_zero_mag ELSE fk.Vega_zero_mag

\* zpts, one entry appended per filter of flist
ZeroPoints(fl, useAB) == [j \in 1..Len(fl) |-> ZeroPoint(fl[j], useAB)]

LoadFilters ==
    /\ pc = "filters"
    /\ names' = RequestedNames
    /\ \E shift \in ZeroPointShifts : flist' = load_filters(names', FilterGrid, shift)
    /\ use_AB' = UseABTuple
    /\ zpts' = ZeroPoints(flist', use_AB')
    /\ pc' = "summary"
    /\ calls' = calls \o <<"load_filters">>
    /\ UNCHANGED <<iso, select, pars, wave, specs, table_rows, stdout, A0, R0, N,
                   _specs, _unit, Dlambda, _s, dust_specs, dust_pars, ext_call,
                   sed_call, fluxes, mags>>

(***************************************************************************)
(* Cell 6: the zeropoint summary                                           *)
(***************************************************************************)
Blanks(n) == [i \in 1..n |-> " "]
Dashes(n) == [i \in 1..n |-> "-"]

\* "{:<w>s}": left justified in w columns, never cut
ljust(s, w) == IF Len(s) >= w THEN s ELSE s \o Blanks(w - Len(s))

DigitChars == <<"0", "1", "2", "3", "4", "5", "6", "7", "8", "9">>

RECURSIVE NatStr(_)
NatStr(n) ==
    IF n < 10 THEN <<DigitChars[n + 1]>>
    ELSE NatStr(n \div 10) \o <<DigitChars[(n % 10) + 1]>>

\* "{:0.4f}" of a value held in 1e-4
Fixed4(v) ==
    NatStr(v \div 10000) \o <<".">>
    \o <<DigitChars[((v \div 1000) % 10) + 1], DigitChars[((v \div 100) % 10) + 1],
         DigitChars[((v \div 10) % 10) + 1], DigitChars[(v % 10) + 1]>>

StrName == <<"n", "a", "m", "e">>
StrZpt == <<"z", "p", "t">>
StrMag == <<"m", "a", "g">>
StrSystem == <<"s", "y", "s", "t", "e", "m">>
StrABmag == <<"A", "B", "m", "a", "g">>
StrVegamag == <<"V", "e", "g", "a", "m", "a", "g">>
StrTitle ==
    Blanks(4)
    \o <<"P", "h", "o", "t", "o", "m", "e", "t", "r", "i", "c", " ", "m", "a",
         "g", "n", "i", "t", "u", "d", "e", " ", "z", "e", "r", "o", "p", "o",
         "i", "n", "t", "s">>

\* print("   ", "-" * 18, "-" * 7, "-" * 7, "-" * 7)
RuleLine ==
    Blanks(3) \o <<" ">> \o Dashes(18) \o <<" ">> \o Dashes(7) \o <<" ">>
    \o Dashes(7) \o <<" ">> \o Dashes(7)

\* "    {0:18s} {1:7s} {2:7s} {3:7s} ".format("name", "zpt", "mag", "system")
HeaderLine ==
    Blanks(4) \o ljust(StrName, 18) \o <<" ">> \o ljust(StrZpt, 7) \o <<" ">>
    \o ljust(StrMag, 7) \o <<" ">> \o ljust(StrSystem, 7) \o <<" ">>

\* the two labels exchanged
SystemLabelSwapped(fk, useAB) ==
    IF split(fk.name, "_")[1] \in Range(useAB) THEN StrVegamag ELSE StrABmag

\* the system label of the branch the loop takes for fk
SystemLabel(fk, useAB) ==
    IF split(fk.name, "_")[1] \in Range(useAB) THEN StrABmag ELSE StrVegamag

\* table_rows.append((fk.name, val, label, fk.dtype))
TableRow(fk, val, useAB) == <<fk.name, val, SystemLabel(fk, useAB), fk.dtype>>

\* "    {0:18s} {1:0.4f} {2:7s} {3:s} ", without the last blank in the Vega branch
PrintedRow(fk, val, useAB) ==
    Blanks(4) \o ljust(fk.name, 18) \o <<" ">> \o Fixed4(val) \o <<" ">>
    \o ljust(SystemLabel(fk, useAB), 7) \o <<" ">> \o fk.dtype
    \o (IF split(fk.name, "_")[1] \in Range(useAB) THEN <<" ">> ELSE <<>>)

\* zip(flist, zpts): as many pairs as the shorter of the two
ZipLen(a, b) == IF Len(a) <= Len(b) THEN Len(a) ELSE Len(b)

PrintSummary ==
    /\ pc = "summary"
    /\ table_rows' =
           <<<<StrName, StrZpt, StrMag, StrSystem>>>>
           \o [j \in 1..ZipLen(flist, zpts) |-> TableRow(flist[j], zpts[j], use_AB)]
    /\ stdout' =
           stdout \o <<StrTitle, <<>>, HeaderLine, RuleLine>>
           \o [j \in 1..ZipLen(flist, zpts) |-> PrintedRow(flist[j], zpts[j], use_AB)]
           \o <<RuleLine>>
    /\ pc' = "dust"
    /\ UNCHANGED <<calls, iso, select, pars, wave, specs, names, flist, use_AB, zpts,
                   A0, R0, N, _specs, _unit, Dlambda, _s, dust_specs, dust_pars,
                   ext_call, sed_call, fluxes, mags>>

(***************************************************************************)
(* Cell 7: dust applied to the spectra                                     *)
(***************************************************************************)
\* str(u): the base units of non-zero exponent, each with its exponent
unit_str(u) ==
    LET Used(b) == u[b] # 0
        used == SelectSeq(BaseUnits, Used)
    IN  [i \in 1..Len(used) |-> <<used[i], u[used[i]]>>]

\* unit[text]: the unit the registry builds from the text
unit_lookup(text) ==
    [b \in Range(BaseUnits) |->
        IF \E i \in 1..Len(text) : text[i][1] = b
        THEN text[CHOOSE i \in 1..Len(text) : text[i][1] = b][2]
        ELSE 0]

\* Fitzpatrick (1999): A(lambda)/A(V) in 1e-3, for Rv in 0.1, as
\* 1 + k(lambda - V) / Rv with k sampled at the wavelengths of the library
F99Curve(lam, Rv) ==
    LET k == CASE lam <= 3500 -> 17360
               [] lam <= 5500 -> 0
               [] OTHER       -> -27280
    IN  1000 + (k \div Rv)

\* What Fitzpatrick99.function(lamb, Av, Rv) hands back, in 1e-3; the library
\* is not part of the repository and the notebook leaves the choice to its
\* default: the extinction A(lambda) in magnitudes, the optical depth
\* 0.4 ln(10) A(lambda), or the normalised curve A(lambda)/A(V).
ExtinctionConventions == {"Alambda", "tau", "normalised"}

extinction_function(lamb, Av, Rv, conv) ==
    [k \in 1..Len(lamb) |->
        CASE conv = "Alambda"    -> Av * F99Curve(lamb[k], Rv)
          [] conv = "tau"        -> (921 * Av * F99Curve(lamb[k], Rv)) \div 1000
          [] conv = "normalised" -> F99Curve(lamb[k], Rv)]

\* e^(-x) in 1e-4 for x >= 0 in 1e-3: e^(-1) per unit of x, a Horner sum of
\* the series for the rest
RECURSIVE ExpNeg(_)
ExpNeg(x) ==
    IF x >= 1000 THEN (ExpNeg(x - 1000) * 3679) \div 10000
    ELSE LET t5 == 10000 - (x * 10000) \div 5000
             t4 == 10000 - (x * t5) \div 4000
             t3 == 10000 - (x * t4) \div 3000
             t2 == 10000 - (x * t3) \div 2000
         IN  10000 - (x * t2) \div 1000

\* the exponent the notebook hands to np.exp, as a positive optical depth:
\* -1 * l.function(wave, Av=A0, Rv=R0)
DustExponent(lamb, Av, Rv, conv) == extinction_function(lamb, Av, Rv, conv)

\* Dlambda = np.exp(-1 * l.function(wave, Av=A0, Rv=R0))
AttenuationCurve(lamb, Av, Rv, conv) ==
    [k \in 1..Len(lamb) |-> ExpNeg(DustExponent(lamb, Av, Rv, conv)[k])]

\* the factor of the first wavelength applied at every wavelength
AttenuateFirstFactor(sp, D) ==
    [i \in 1..Len(sp) |-> [k \in 1..Len(D) |-> sp[i][k] * D[1]]]

\* _specs * Dlambda[None, :]
Attenuate(sp, D) == [i \in 1..Len(sp) |-> [k \in 1..Len(D) |-> sp[i][k] * D[k]]]

\* np.ones(N) * A0
ExtinctionColumn(n, Av) == [i \in 1..n |-> 1 * Av]

\* the unit dust_specs is given
DustUnit(sp) == unit_lookup(unit_str(sp.units))

ApplyDust ==
    /\ pc = "dust"
    /\ A0' = 3
    /\ R0' = 31
    /\ N' = Len(pars.data)
    /\ _specs' = specs.magnitude
    /\ _unit' = DustUnit(specs)
    /\ ext_call' = [lamb |-> wave, Av |-> A0', Rv |-> R0']
    /\ \E conv \in ExtinctionConventions :
           Dlambda' = AttenuationCurve(ext_call'.lamb, ext_call'.Av, ext_call'.Rv, conv)
    /\ _s' = Attenuate(_specs', Dlambda')
    /\ dust_specs' = [magnitude |-> _s', units |-> _unit']
    /\ dust_pars' = add_column(SimpleTable(pars), "A0", ExtinctionColumn(N', A0'))
    /\ pc' = "photometry"
    /\ calls' = calls \o <<"Fitzpatrick99.function">>
    /\ UNCHANGED <<iso, select, pars, wave, specs, names, flist, use_AB, zpts,
                   table_rows, stdout, sed_call, fluxes, mags>>

(***************************************************************************)
(* Cell 8: photometry                                                      *)
(***************************************************************************)
\* the value of a spectrum sampled on lamb at wavelength w
SampleAt(lamb, sp, w) ==
    IF \E k \in 1..Len(lamb) : lamb[k] = w
    THEN sp[CHOOSE k \in 1..Len(lamb) : lamb[k] = w]
    ELSE 0

\* the flux of one spectrum through one filter: the spectrum summed over the
\* filter's transmission (in units where the sphere of 10 pc has unit area)
BandFlux(lamb, sp, fk) ==
    SumTo([k \in 1..Len(fk.transmit) |->
              fk.transmit[k] * SampleAt(lamb, sp, fk.wavelength[k])],
          Len(fk.transmit))

\* the fluxes laid out one row per filter, one column per spectrum
extractSEDsTransposed(lamb, sp, fl) ==
    [j \in 1..Len(fl) |-> [i \in 1..Len(sp) |-> BandFlux(lamb, sp[i], fl[j])]]

\* pyphot.extractSEDs(lamb, specs, flist, absFlux=True): one row per
\* spectrum, one column per filter, in the order of flist
extractSEDs(lamb, sp, fl) ==
    [i \in 1..Len(sp) |-> [j \in 1..Len(fl) |-> BandFlux(lamb, sp[i], fl[j])]]

Log10Table == <<0, 301, 477, 602, 699, 778, 845, 903, 954>>

\* log10 in 1e-3 dex of a whole number, from its leading digit
RECURSIVE Log10Milli(_)
Log10Milli(x) == IF x >= 10 THEN 1000 + Log10Milli(x \div 10) ELSE Log10Table[x]

\* np.log10 of a flux held in 1e-4; -inf for no flux
np_log10(x) == IF x <= 0 THEN -1000000 ELSE Log10Milli(x) - 4000

\* -2.5 * np.log10(flux) - zeropoint, in 1e-4 mag
Magnitude(flux, zpt) == -25 * np_log10(flux) - zpt

\* the zeropoints taken in the opposite order of the filters
MagnitudesReversed(fx, zp) ==
    [i \in 1..Len(fx) |->
        [j \in 1..Len(fx[i]) |-> Magnitude(fx[i][j], zp[Len(zp) + 1 - j])]]

\* mags = -2.5 * np.log10(fluxes) - zpts, zpts along the columns
Magnitudes(fx, zp) ==
    [i \in 1..Len(fx) |-> [j \in 1..Len(fx[i]) |-> Magnitude(fx[i][j], zp[j])]]

\* extractSEDs handed the spectra as the library generated them
SedSpectraIntrinsic == specs.magnitude

\* the spectra handed to extractSEDs
SedSpectra == dust_specs.magnitude

\* the wavelengths handed to extractSEDs
SedWave == wave

ComputePhotometry ==
    /\ pc = "photometry"
    /\ sed_call' = [lamb |-> SedWave, spectra |-> SedSpectra, filters |-> flist,
                    absFlux |-> TRUE]
    /\ fluxes' = extractSEDs(sed_call'.lamb, sed_call'.spectra, sed_call'.filters)
    /\ mags' = Magnitudes(fluxes', zpts)
    /\ pc' = "done"
    /\ calls' = calls \o <<"extractSEDs">>
    /\ UNCHANGED <<iso, select, pars, wave, specs, names, flist, use_AB, zpts,
                   table_rows, stdout, A0, R0, N, _specs, _unit, Dlambda, _s,
                   dust_specs, dust_pars, ext_call>>

Init ==
    /\ pc = "isochrone"
    /\ calls = <<>>
    /\ iso = NoTable
    /\ select = <<>>
    /\ pars = NoTable
    /\ wave = <<>>
    /\ specs = <<>>
    /\ names = <<>>
    /\ flist = <<>>
    /\ use_AB = <<>>
    /\ zpts = <<>>
    /\ table_rows = <<>>
    /\ stdout = <<>>
    /\ A0 = 0
    /\ R0 = 0
    /\ N = 0
    /\ _specs = <<>>
    /\ _unit = <<>>
    /\ Dlambda = <<>>
    /\ _s = <<>>
    /\ dust_specs = <<>>
    /\ dust_pars = NoTable
    /\ ext_call = <<>>
    /\ sed_call = <<>>
    /\ fluxes = <<>>
    /\ mags = <<>>

Next ==
    \/ GetIsochrone
    \/ GenerateSpectra
    \/ GenerateSpectraKeyError
    \/ GenerateSpectraParsPars
    \/ LoadFilters
    \/ PrintSummary
    \/ ApplyDust
    \/ ComputePhotometry

Spec == Init /\ [][Next]_vars

(***************************************************************************)
(* Properties                                                              *)
(***************************************************************************)
Called(f) == \E i \in 1..Len(calls) : calls[i] = f

CalledBefore(f, g) ==
    \A i \in 1..Len(calls) : calls[i] = g => \E j \in 1..(i - 1) : calls[j] = f

\* the part of a name before its first underscore
Prefix(nm) == IF HasChar(nm, "_") THEN SubSeq(nm, 1, FirstIndex(nm, "_") - 1) ELSE nm

StrGALEX == <<"G", "A", "L", "E", "X">>
StrSDSS == <<"S", "D", "S", "S">>

\* spectra left as they are, on the scale of the attenuated ones
Unattenuated(sp) == [i \in 1..Len(sp) |-> [k \in 1..Len(sp[i]) |-> sp[i][k] * 10000]]

\* C1: in a run from top to bottom the extinction curve is evaluated before
\* extractSEDs is called, and the spectra extractSEDs is handed are the
\* attenuated spectra dust_specs, not the spectra the library generated.
C1_DustBeforePhotometry ==
    /\ CalledBefore("Fitzpatrick99.function", "extractSEDs")
    /\ pc = "done" =>
         /\ sed_call.spectra = dust_specs.magnitude
         /\ sed_call.spectra = Attenuate(specs.magnitude, Dlambda)
         /\ Len(specs.magnitude) >= 1 => sed_call.spectra # Unattenuated(specs.magnitude)
         /\ fluxes = extractSEDs(wave, dust_specs.magnitude, flist)

C1_Witness ==
    /\ pc = "done"
    /\ Len(specs.magnitude) = 2
    /\ specs.magnitude[1] # specs.magnitude[2]
    /\ sed_call.spectra = dust_specs.magnitude

\* C2: every magnitude is -2.5 log10 of the flux of the same star through the
\* same filter, minus the zeropoint of that filter: column j of mags, column j
\* of fluxes and entry j of zpts all belong to filter j of flist.
C2_MagnitudeFormula ==
    pc = "done" =>
      /\ Len(mags) = Len(dust_specs.magnitude)
      /\ Len(zpts) = Len(flist)
      /\ \A i \in 1..Len(mags) :
           /\ Len(mags[i]) = Len(flist)
           /\ \A j \in 1..Len(flist) :
                /\ mags[i][j] = -25 * np_log10(fluxes[i][j]) - zpts[j]
                /\ fluxes[i][j] = BandFlux(wave, dust_specs.magnitude[i], flist[j])
                /\ zpts[j] \in {flist[j].AB_zero_mag, flist[j].Vega_zero_mag}

C2_Witness ==
    /\ pc = "done"
    /\ Len(mags) = 2
    /\ Len(mags[1]) = 20
    /\ mags[1][1] # mags[1][20]
    /\ mags[1] # mags[2]

\* C3: the zeropoint kept for a filter is its AB zeropoint exactly when the
\* part of its name before the first underscore is GALEX or SDSS, and its
\* Vega zeropoint for every other filter.
C3_ZeropointSystem ==
    pc \in {"summary", "dust", "photometry", "done"} =>
      /\ Len(zpts) = Len(flist)
      /\ \A j \in 1..Len(flist) :
           /\ zpts[j] = flist[j].AB_zero_mag
                <=> Prefix(flist[j].name) \in {StrGALEX, StrSDSS}
           /\ Prefix(flist[j].name) \notin {StrGALEX, StrSDSS}
                => zpts[j] = flist[j].Vega_zero_mag

C3_Witness ==
    /\ pc = "summary"
    /\ \E j \in 1..Len(flist) : zpts[j] = flist[j].AB_zero_mag
    /\ \E j \in 1..Len(flist) : zpts[j] = flist[j].Vega_zero_mag

\* C4: after the selection no row of iso is in the pre-main-sequence, TP-AGB
\* or post-AGB (white dwarf) phase, MIST codes -1, 5 and 6.
C4_NoPmsTpagbWd ==
    iso.bound => \A i \in 1..Len(iso.data) : iso.data[i]["phase"] \notin {-1, 5, 6}

\* what the selection does keep out: every phase below 0 or from 6 up
C4_PhasesKept ==
    iso.bound => \A i \in 1..Len(iso.data) : iso.data[i]["phase"] \in 0..5

\* C5: every attenuated flux is the intrinsic flux times
\* e^(-0.4 A0 tau), tau = A(lambda)/A0 the Fitzpatrick (1999) curve at that
\* wavelength, with A0 = 3 mag and R0 = 3.1.
C5_AttenuationLaw ==
    pc \in {"photometry", "done"} =>
      /\ A0 = 3
      /\ R0 = 31
      /\ \A i \in 1..Len(specs.magnitude) : \A k \in 1..Len(wave) :
           dust_specs.magnitude[i][k] =
               specs.magnitude[i][k] * ExpNeg((4 * A0 * F99Curve(wave[k], R0)) \div 10)

\* the factor the notebook applies is not the documented one, whatever the
\* library's function hands back
C5_NeverTheDocumentedFactor ==
    pc \in {"photometry", "done"} =>
      \A k \in 1..Len(wave) :
          Dlambda[k] # ExpNeg((4 * A0 * F99Curve(wave[k], R0)) \div 10)

\* the indices of iso the coverage test accepts
Covered == {i \in 1..Len(iso.data) : Inside(iso.data[i]["log_Teff"], iso.data[i]["log_g"])}

\* the n-th smallest member of a set of indices
NthOf(S, n) == CHOOSE i \in S : Cardinality({j \in S : j <= i}) = n

\* C6: the table handed to generate_individual_spectra holds exactly the rows
\* of iso that points_inside accepted, in iso's order, and no other row; so
\* every star a spectrum is generated for lies inside the library's coverage.
C6_ParsInsideCoverage ==
    Called("generate_individual_spectra") =>
      /\ Len(select) = Len(iso.data)
      /\ \A i \in 1..Len(iso.data) : select[i] <=> i \in Covered
      /\ Len(pars.data) = Cardinality(Covered)
      /\ \A n \in 1..Len(pars.data) : pars.data[n] = iso.data[NthOf(Covered, n)]
      /\ \A n \in 1..Len(pars.data) :
           Inside(pars.data[n]["log_Teff"], pars.data[n]["log_g"])
      /\ Len(specs.magnitude) = Len(pars.data)

C6_Witness ==
    /\ Called("generate_individual_spectra")
    /\ Len(iso.data) = 2
    /\ select = <<FALSE, TRUE>>
    /\ Len(pars.data) = 1

\* C7: when generate_individual_spectra is called, logT, logg, logL and Z
\* each name a column of pars or an alias of one, and Z is 0.0145 in every row.
C7_StellibNamesResolve ==
    Called("generate_individual_spectra") =>
      /\ \A n \in {"logT", "logg", "logL", "Z"} :
           \/ n \in pars.cols
           \/ \E a \in pars.aliases : a[1] = n /\ a[2] \in pars.cols
      /\ \A i \in 1..Len(pars.data) : pars.data[i]["Z"] = 145

C7_Witness ==
    /\ Called("generate_individual_spectra")
    /\ Len(pars.data) = 2
    /\ <<"logg", "log_g">> \in pars.aliases
    /\ "Z" \in pars.cols

DigitOf(c) == CHOOSE d \in 0..9 : DigitChars[d + 1] = c

\* the number, in 1e-4, that a text with four decimals shows
RECURSIVE ReadFixed4(_)
ReadFixed4(t) ==
    IF t = <<>> THEN 0
    ELSE IF t[Len(t)] = "." THEN ReadFixed4(SubSeq(t, 1, Len(t) - 1))
         ELSE 10 * ReadFixed4(SubSeq(t, 1, Len(t) - 1)) + DigitOf(t[Len(t)])

\* C8: after the header, table_rows and the printed summary hold one row per
\* filter of flist, in its order, with the filter's name, its zeropoint and a
\* label that is ABmag exactly when the zeropoint is the filter's AB zeropoint
\* and Vegamag exactly when it is its Vega zeropoint; 20 rows for the
\* requested names.
C8_SummaryRows ==
    pc \in {"dust", "photometry", "done"} =>
      /\ Len(flist) = 20
      /\ Len(table_rows) = 1 + Len(flist)
      /\ table_rows[1] = <<StrName, StrZpt, StrMag, StrSystem>>
      /\ Len(stdout) = 4 + Len(flist) + 1
      /\ \A j \in 1..Len(flist) :
           LET row  == table_rows[1 + j]
               line == split_blank(stdout[4 + j])
           IN  /\ row[1] = flist[j].name
               /\ row[2] = zpts[j]
               /\ row[3] = StrABmag <=> zpts[j] = flist[j].AB_zero_mag
               /\ row[3] = StrVegamag <=> zpts[j] = flist[j].Vega_zero_mag
               /\ Len(line) = 4
               /\ line[1] = flist[j].name
               /\ ReadFixed4(line[2]) = zpts[j]
               /\ line[3] = row[3]

C8_Witness ==
    /\ pc = "dust"
    /\ Len(table_rows) = 21
    /\ table_rows[2][3] = StrABmag
    /\ table_rows[4][3] = StrVegamag

StrGaiaDR2 == <<"G", "a", "i", "a", "D", "R", "2">>
StrGROUND == <<"G", "R", "O", "U", "N", "D">>
Str2MASS == <<"2", "M", "A", "S", "S">>
StrWISE == <<"W", "I", "S", "E">>

\* the second part of a name, between its first and second underscore
SecondPart(nm) == Prefix(SubSeq(nm, FirstIndex(nm, "_") + 1, Len(nm)))

StrJOHNSON == <<"J", "O", "H", "N", "S", "O", "N">>
StrCOUSINS == <<"C", "O", "U", "S", "I", "N", "S">>

\* C9: names holds 20 different names, GALEX (2), Gaia DR2 (3), Johnson (3) and
\* Cousins (2), SDSS (5), 2MASS (3), WISE (2) in that order, and the filters
\* are loaded on the grid wave that the spectrum generation returned, the
\* grid handed to the extinction curve and to extractSEDs.
C9_NamesAndGrid ==
    /\ pc \in {"summary", "dust", "photometry", "done"} =>
         /\ Len(names) = 20
         /\ \A i, j \in 1..Len(names) : i # j => names[i] # names[j]
         /\ \A j \in 1..2 : Prefix(names[j]) = StrGALEX
         /\ \A j \in 3..5 : Prefix(names[j]) = StrGaiaDR2
         /\ \A j \in 6..10 : Prefix(names[j]) = StrGROUND
         /\ \A j \in 6..8 : SecondPart(names[j]) = StrJOHNSON
         /\ \A j \in 9..10 : SecondPart(names[j]) = StrCOUSINS
         /\ \A j \in 11..15 : Prefix(names[j]) = StrSDSS
         /\ \A j \in 16..18 : Prefix(names[j]) = Str2MASS
         /\ \A j \in 19..20 : Prefix(names[j]) = StrWISE
         /\ Len(flist) = Len(names)
         /\ \A j \in 1..Len(flist) :
              /\ flist[j].name = names[j]
              /\ flist[j].wavelength = wave
              /\ Len(flist[j].transmit) = Len(wave)
         /\ wave = generate_individual_spectra(pars).wave
    /\ pc \in {"photometry", "done"} => ext_call.lamb = wave /\ Len(Dlambda) = Len(wave)
    /\ pc = "done" => sed_call.lamb = wave /\ sed_call.filters = flist

C9_Witness ==
    /\ pc = "done"
    /\ Len(names) = 20
    /\ Len(wave) = 3
    /\ sed_call.lamb = flist[20].wavelength

\* C10: one factor per wavelength, the same for every star:
\* _s[i][k] = _specs[i][k] * Dlambda[k]; dust_specs has the shape of specs and
\* carries the unit specs carried.
C10_BroadcastAndUnit ==
    pc \in {"photometry", "done"} =>
      /\ _specs = specs.magnitude
      /\ Len(_s) = Len(_specs)
      /\ \A i \in 1..Len(_specs) :
           /\ Len(_s[i]) = Len(_specs[i])
           /\ \A k \in 1..Len(_specs[i]) : _s[i][k] = _specs[i][k] * Dlambda[k]
      /\ dust_specs.magnitude = _s
      /\ dust_specs.units = specs.units
      /\ _unit = specs.units

C10_Witness ==
    /\ pc = "photometry"
    /\ Len(_s) = 2
    /\ _specs[1] # _specs[2]
    /\ Dlambda[1] # Dlambda[2]
    /\ dust_specs.units["erg"] = 1

\* the number of True entries of select
SelectCount == Cardinality({i \in 1..Len(select) : select[i]})

\* C11: sizes stay aligned through the run: the number of True entries of
\* select, len(pars), the number of generated spectra, of rows of dust_specs,
\* len(dust_pars) and the number of rows of mags are one number; len(names),
\* len(flist), len(zpts) and the number of columns of mags are one number.
C11_SizesAligned ==
    /\ Called("generate_individual_spectra") =>
         /\ Len(pars.data) = SelectCount
         /\ Len(specs.magnitude) = SelectCount
    /\ pc \in {"summary", "dust", "photometry", "done"} =>
         /\ Len(flist) = Len(names)
         /\ Len(zpts) = Len(names)
    /\ pc \in {"photometry", "done"} =>
         /\ N = SelectCount
         /\ Len(dust_specs.magnitude) = SelectCount
         /\ Len(dust_pars.data) = SelectCount
         /\ \A i \in 1..Len(dust_specs.magnitude) :
              Len(dust_specs.magnitude[i]) = Len(wave)
    /\ pc = "done" =>
         /\ Len(fluxes) = SelectCount
         /\ Len(mags) = SelectCount
         /\ \A i \in 1..Len(mags) :
              Len(mags[i]) = Len(names) /\ Len(fluxes[i]) = Len(names)

C11_Witness ==
    /\ pc = "done"
    /\ Len(select) = 2
    /\ SelectCount = 1
    /\ Len(mags) = 1
    /\ Len(mags[1]) = 20
    /\ Len(dust_pars.data) = 1
====
